---- MODULE Spec2Model ----
(***************************************************************************)
(* Fleet digital twins (src/app.py): the refresh cycle of the Streamlit   *)
(* script, its three memoized fetches and the four upstream fetchers,     *)
(* one action per HTTP request of a fetcher loop and per script step.     *)
(***************************************************************************)
EXTENDS Integers, Sequences, FiniteSets, TLC

(* ------------------------------ bounds -------------------------------- *)
\* Transport failures the upstream may produce in one run.
MaxFaults == 2
\* Script runs (refresh cycles) of one run.
MaxCycles == 2
\* Script runs of a session left to the 60 s timer.
MaxPolls == 62
\* Size of the small fleets.
SmallFleet == 2
\* Size of the fleet that needs more than one ID chunk.
BigFleet == 101
\* Page size the upstream uses for the big fleet.
BigPage == 64
\* Pages a paginated fetch is followed for; the code has no such limit.
MaxPages == 4

(* ------------------------- program constants -------------------------- *)
ROSTER_TTL == 3600
POLL_INTERVAL == 60

\* A dynamic entry that outlives the poll interval.
StretchedTtl == POLL_INTERVAL + 5

DYNAMIC_TTL == 55
batch_size == 100
stat_type_batch == 4
TIMEOUT_DEFAULT == 10
TIMEOUT_STATS == 15

all_desired_stat_types ==
  << "engineCoolantTemperatureMilliC", "ambientAirTemperatureMilliC",
     "engineRpm", "obdEngineSeconds", "engineOilPressureKPa" >>

\* Python's None / a falsy cursor.
None == 0

(* ------------------------------ helpers ------------------------------- *)
Min(a, b) == IF a < b THEN a ELSE b

Range(s) == { s[k] : k \in 1..Len(s) }

\* Python slice s[i : i + n] with a 0-based start i.
Slice(s, i, n) == SubSeq(s, i + 1, Min(Len(s), i + n))

\* [s[i:i + n] for i in range(0, len(s), n)]
Batches(s, n) ==
  [ k \in 1..((Len(s) + n - 1) \div n) |-> Slice(s, (k - 1) * n, n) ]

\* dict.update of a mapping by a mapping (right side wins).
Merge(f, g) ==
  [ k \in (DOMAIN f) \cup (DOMAIN g) |-> IF k \in DOMAIN g THEN g[k] ELSE f[k] ]

EmptyMap == [ k \in {} |-> 0 ]

\* The sequence lo, lo+1, ..., hi.
Ids(lo, hi) == [ k \in 1..(hi - lo + 1) |-> lo + k - 1 ]

(* ------------------------ JSON values and dicts ----------------------- *)
\* A JSON integer n is <<"num", n>>, a number with decimals <<"dec", m>> for
\* m ten-thousandths, true and false <<"bool", b>>, a string <<"str", x>>, an
\* object <<"obj", f>> with f a function on its keys, null is <<"null">>.  A
\* vehicle ID string is written as the number whose decimal digits it holds.
Num(n) == << "num", n >>
Dec(m) == << "dec", m >>
Bool(b) == << "bool", b >>
Str(x) == << "str", x >>
Obj(f) == << "obj", f >>
List(q) == << "list", q >>
Null == << "null" >>

\* isinstance(v, (int, float)); Python's bool is an int.
isinstance_number(v) == v[1] \in {"num", "dec", "bool"}

\* A number as a fraction; True is 1 and False is 0.
Numerator(v) == IF v[1] = "bool" THEN (IF v[2] THEN 1 ELSE 0) ELSE v[2]
Denominator(v) == IF v[1] = "dec" THEN 10000 ELSE 1
isinstance_dict(v) == v[1] = "obj"
isinstance_list(v) == v[1] = "list"

\* dict.get(key, default) on a function over its keys.
Get(d, key, default) == IF key \in DOMAIN d THEN d[key] ELSE default

\* The strings '' and 'None', which are no vehicle ID.
EmptyString == -1
NoneString == -2

\* str(x) of an ID: the same digits whether the JSON held "12" or 12.
str(v) == IF v[1] \in {"num", "str"} THEN v[2] ELSE NoneString

(* --------------------------- upstream server -------------------------- *)
\* A server holds a fleet 1..fleet, pages every list by `limit` items and
\* lists maintenance items for the IDs of `mlist`, in that order.
\* With `extra` it adds a vehicle nobody asked for to every location and
\* stat response.  Its location item of a vehicle of `nolocation` has no
\* 'location' field, that of a vehicle of `noid` no 'id' field.  With
\* `endless` every page it returns carries a cursor.
EmptyServer ==
  [ fleet |-> 0, limit |-> 1, mlist |-> << >>, extra |-> FALSE,
    nolocation |-> {}, noid |-> {},
    endless |-> FALSE ]
PagedServer ==
  [ fleet |-> SmallFleet, limit |-> 1, mlist |-> Ids(1, SmallFleet),
    extra |-> FALSE, nolocation |-> {}, noid |-> {},
    endless |-> FALSE ]
NoisyServer ==
  [ fleet |-> SmallFleet + 1, limit |-> 2,
    mlist |-> Ids(1, SmallFleet) \o << 1, SmallFleet + 2 >>, extra |-> TRUE,
    nolocation |-> {}, noid |-> {},
    endless |-> FALSE ]
BigServer ==
  [ fleet |-> BigFleet, limit |-> BigPage,
    mlist |-> << BigFleet + 1 >> \o Ids(1, BigFleet - 1), extra |-> TRUE,
    nolocation |-> {}, noid |-> {},
    endless |-> FALSE ]
\* The last vehicle of the fleet, alone in the second ID chunk, has a
\* location item with a field missing.
BrokenServer ==
  [ fleet |-> BigFleet, limit |-> BigPage, mlist |-> Ids(1, BigFleet),
    extra |-> FALSE, nolocation |-> {BigFleet}, noid |-> {},
    endless |-> FALSE ]
HeadlessServer ==
  [ fleet |-> BigFleet, limit |-> BigPage, mlist |-> Ids(1, BigFleet),
    extra |-> FALSE, nolocation |-> {}, noid |-> {BigFleet},
    endless |-> FALSE ]
\* The maintenance list names vehicle 1 twice on its first page and again on
\* the second, and never names the last vehicle of the fleet.
RepeatingServer ==
  [ fleet |-> SmallFleet + 1, limit |-> 3,
    mlist |-> << 1, 1, SmallFleet >> \o << SmallFleet, 1, SmallFleet + 2 >>,
    extra |-> FALSE, nolocation |-> {}, noid |-> {},
    endless |-> FALSE ]

\* Every page of the roster and of the maintenance list comes with a cursor,
\* the pages past the end of the list being empty; the maintenance list names
\* no vehicle of the fleet.
EndlessServer ==
  [ fleet |-> SmallFleet, limit |-> 1, mlist |-> << SmallFleet + 2 >>,
    extra |-> FALSE, nolocation |-> {}, noid |-> {},
    endless |-> TRUE ]

\* Cursor k (k > 0) stands for "after page k"; the first request has none.
PageItems(list, limit, after) == Slice(list, after * limit, limit)
PageCursor(list, limit, after) ==
  IF (after + 1) * limit < Len(list) THEN after + 1 ELSE None

\* pagination.endCursor of the page after cursor `after` of server s.
CursorOf(s, list, after) ==
  IF s.endless THEN after + 1 ELSE PageCursor(list, s.limit, after)

VehicleItem(i) == [ k \in {"id", "name"} |->
                      IF k = "id" THEN Str(i) ELSE Str(1000 + i) ]

\* GET /fleet/vehicles?after=<cursor>
RosterResponse(s, after) ==
  [ k \in {"data", "pagination"} |->
      IF k = "data"
        THEN [ j \in 1..Len(PageItems(Ids(1, s.fleet), s.limit, after)) |->
                 VehicleItem(PageItems(Ids(1, s.fleet), s.limit, after)[j]) ]
        ELSE IF CursorOf(s, Ids(1, s.fleet), after) = None
               THEN EmptyMap
               ELSE [ c \in {"endCursor"} |->
                        CursorOf(s, Ids(1, s.fleet), after) ] ]

\* Vehicles the server has a position for.
HasLocation(i) == i % 3 # 2

LocationOf(i) ==
  [ k \in {"latitude", "longitude", "speed", "time", "reverseGeo"} |->
      CASE k = "latitude" -> Num(i)
        [] k = "longitude" -> Num(0 - i)
        [] k = "speed" -> IF i % 2 = 0 THEN Num(10 * i) ELSE Null
        [] k = "time" -> Str(i)
        [] OTHER -> IF i % 2 = 1
                      THEN Obj([ f \in {"formattedLocation"} |-> Str(2000 + i) ])
                      ELSE Obj(EmptyMap) ]

LocationItem(i) == [ k \in {"id", "location"} |->
                       IF k = "id" THEN Str(i) ELSE Obj(LocationOf(i)) ]

\* The location item the server writes for vehicle i.
LocationItemOf(s, i) ==
  IF i \in s.nolocation THEN [ k \in {"id"} |-> Str(i) ]
  ELSE IF i \in s.noid THEN [ k \in {"location"} |-> Obj(LocationOf(i)) ]
  ELSE LocationItem(i)

\* GET /fleet/vehicles/locations?ids=<csv>
LocationsResponse(s, ids) ==
  LET known == SelectSeq(ids, LAMBDA i : HasLocation(i)
                                          \/ i \in s.nolocation \cup s.noid)
      all == IF s.extra THEN known \o << s.fleet + 1 >> ELSE known
  IN  [ k \in {"data"} |-> [ j \in 1..Len(all) |-> LocationItemOf(s, all[j]) ] ]

StatIndex(t) == CHOOSE k \in 1..Len(all_desired_stat_types) :
                  all_desired_stat_types[k] = t

\* The server has no reading of type t for vehicle i.
HasStat(i, t) == (i + StatIndex(t)) % 4 # 0

\* Odd types come in a {time, value} envelope, even ones as a bare number.
StatOf(i, t) ==
  IF StatIndex(t) % 2 = 1
    THEN Obj([ k \in {"time", "value"} |->
                 IF k = "value" THEN Num(1000 * i + StatIndex(t)) ELSE Str(i) ])
    ELSE Num(1000 * i + StatIndex(t))

StatItem(i, types) ==
  [ k \in {"id"} \cup { t \in Range(types) : HasStat(i, t) } |->
      IF k = "id" THEN Str(i) ELSE StatOf(i, k) ]

\* GET /fleet/vehicles/stats?types=<csv>&vehicleIds=<csv>
StatsResponse(s, ids, types) ==
  LET all == IF s.extra THEN ids \o << s.fleet + 1 >> ELSE ids
  IN  [ k \in {"data"} |-> [ j \in 1..Len(all) |-> StatItem(all[j], types) ] ]

\* The j1939 block of the item at position pos of the maintenance list.
J1939Of(i, pos) ==
  CASE i % 3 = 1 -> Null
    [] i % 3 = 2 ->
         Obj([ k \in {"checkEngineLight", "diagnosticTroubleCodes"} |->
                 IF k = "checkEngineLight"
                   THEN Obj([ f \in {"warningIsOn", "stopIsOn"} |->
                                f = "warningIsOn" ])
                   ELSE List(<< [ spnId |-> 100 + i, fmiId |-> pos,
                                  occurrenceCount |-> 1 ] >>) ])
    [] OTHER -> Obj(EmptyMap)

\* The v1 API writes IDs as numbers; pos tells two items of one ID apart.
MaintenanceItem(i, pos) ==
  [ k \in {"id", "pos", "j1939"} |->
      CASE k = "id" -> Num(i)
        [] k = "pos" -> Num(pos)
        [] OTHER -> J1939Of(i, pos) ]

\* GET /v1/fleet/maintenance/list?after=<cursor>; odd pages answer under
\* 'vehicleMaintenance', even pages under 'vehicles'.
MaintenanceResponse(s, after) ==
  LET items == [ j \in 1..Len(PageItems(s.mlist, s.limit, after)) |->
                   MaintenanceItem(PageItems(s.mlist, s.limit, after)[j],
                                   after * s.limit + j) ]
      cur == CursorOf(s, s.mlist, after)
      key == IF after % 2 = 0 THEN "vehicleMaintenance" ELSE "vehicles"
  IN  [ k \in {key, "pagination"} |->
          IF k = key THEN items
          ELSE IF cur = None THEN EmptyMap ELSE [ c \in {"endCursor"} |-> cur ] ]

(* ------------------- twin builder and alert evaluator ----------------- *)
NA == << "N/A" >>
\* A number kept with two decimals, as its count of hundredths.
Hundredths(h) == << "x100", h >>
\* One piece of a message: a literal text or a formatted value.
Text(t) == << "text", t >>

\* round(num / den, 2), halves to the even neighbour; den > 0.
Round2(num, den) ==
  LET q == (100 * num) \div den
      r == (100 * num) % den
  IN  IF 2 * r > den \/ (2 * r = den /\ q % 2 = 1) THEN q + 1 ELSE q

\* sep.join(parts) for a sequence of token sequences.
RECURSIVE Join(_, _)
Join(parts, sep) ==
  IF Len(parts) = 0 THEN << >>
  ELSE IF Len(parts) = 1 THEN parts[1]
  ELSE parts[1] \o << sep >> \o Join(Tail(parts), sep)

\* datetime.fromisoformat(...).strftime(...): odd stamps parse, the others
\* raise ValueError and are kept verbatim.
FormatTime(t) == IF t[2] % 2 = 1 THEN << "ts", t[2] >> ELSE t

\* The status the alert evaluation never assigns.
OFFLINE_STATUS == << Text("OFFLINE o SIN DATOS") >>

NORMAL_STATUS == << Text("OPERANDO NORMALMENTE") >>

\* A light that counts as on when the record does not mention it.
LightDefaultOn == TRUE

\* Lines 419-422: check_engine_light_data.get(..., False)
LightDefault == FALSE
ALERT_PREFIX == Text("ALERTA: ")

\* A conversion that shows a zero for a reading it does not have.
ConvertedOrZero(stats_data, key, den) ==
  IF key \in DOMAIN stats_data /\ isinstance_number(stats_data[key])
    THEN Hundredths(Round2(Numerator(stats_data[key]),
                            Denominator(stats_data[key]) * den))
    ELSE Hundredths(0)

\* The numeric field `key` of stats_data divided by den, or 'N/A'.
Converted(stats_data, key, den) ==
  IF key \in DOMAIN stats_data /\ isinstance_number(stats_data[key])
    THEN Hundredths(Round2(Numerator(stats_data[key]),
                            Denominator(stats_data[key]) * den))
    ELSE NA

\* A value formatted into a message by an f-string.
Shown(d, key) == IF key \in DOMAIN d THEN << "val", d[key] >> ELSE NA

\* A DTC shown by its SPN alone.
DtcTextSpnOnly(code) == << Text("SPN: "), Shown(code, "spnId") >>

\* Lines 436-438: f"SPN: {spn} (FMI: {fmi})"
DtcText(code) ==
  << Text("SPN: "), Shown(code, "spnId"), Text(" (FMI: "),
     Shown(code, "fmiId"), Text(")") >>

\* An evaluation that looks at the lights alone.
EvaluateLightsOnly(dtcs, warning, emissions, protect, stop) ==
  IF warning \/ emissions \/ protect \/ stop
    THEN [ status_alert |-> << ALERT_PREFIX, Text("Luz de Check Engine ON") >>,
           alert_color |-> "red" ]
    ELSE [ status_alert |-> NORMAL_STATUS, alert_color |-> "green" ]

\* Lines 431-459: status and colour from the DTC list and the four lights.
EvaluateAlert(dtcs, warning, emissions, protect, stop) ==
  LET dtc_alert ==
        IF Len(dtcs) > 0
          THEN << << Text("Fallas de motor (DTCs: ") >>
                  \o Join([ k \in 1..Len(dtcs) |-> DtcText(dtcs[k]) ], Text("; "))
                  \o << Text(")") >> >>
          ELSE << >>
      check_light_alerts ==
        (IF warning THEN << << Text("Advertencia (Warning)") >> >> ELSE << >>)
        \o (IF emissions THEN << << Text("Emisiones (Emissions)") >> >> ELSE << >>)
        \o (IF protect THEN << << Text("Protección (Protect)") >> >> ELSE << >>)
        \o (IF stop THEN << << Text("Detener (Stop)") >> >> ELSE << >>)
      light_alert ==
        IF Len(check_light_alerts) > 0
          THEN << << Text("Luz de Check Engine ON (") >>
                  \o Join(check_light_alerts, Text(", "))
                  \o << Text(")") >> >>
          ELSE << >>
      alerts == dtc_alert \o light_alert
  IN  IF Len(alerts) > 0
        THEN [ status_alert |-> << ALERT_PREFIX >> \o Join(alerts, Text("; ")),
               alert_color |-> "red" ]
        ELSE [ status_alert |-> NORMAL_STATUS, alert_color |-> "green" ]

\* Line 329: str(vehicle_details.get('id', ''))
TwinKey(vehicle_details) == str(Get(vehicle_details, "id", Str(EmptyString)))

\* Lines 327-461.  vehicle_details is a roster item; the three maps are the
\* results of the dynamic fetch; clock is datetime.now().
process_vehicle_data(vehicle_details, vehicle_locations, vehicle_stats, vehicle_maintenance_data, clock) ==
  LET vehicle_id_str == TwinKey(vehicle_details)
      stats_data == Get(vehicle_stats, vehicle_id_str, EmptyMap)
      maintenance_data == Get(vehicle_maintenance_data, vehicle_id_str, EmptyMap)
      loc_value == Get(vehicle_locations, vehicle_id_str, Null)
      has_loc == isinstance_dict(loc_value) /\ DOMAIN loc_value[2] # {}
      loc_data == IF has_loc THEN loc_value[2] ELSE EmptyMap
      speed_value_loc == Get(loc_data, "speed", Null)
      reverse_geo == Get(loc_data, "reverseGeo", Obj(EmptyMap))
      has_maint == DOMAIN maintenance_data # {}
      j1939_value == Get(maintenance_data, "j1939", Null)
      j1939_data == IF isinstance_dict(j1939_value) THEN j1939_value[2] ELSE EmptyMap
      light_value == Get(j1939_data, "checkEngineLight", Obj(EmptyMap))
      check_engine_light_data == light_value[2]
      dtcs_from_maintenance == Get(j1939_data, "diagnosticTroubleCodes", List(<< >>))
      warning == has_maint /\ Get(check_engine_light_data, "warningIsOn", LightDefault)
      emissions == has_maint /\ Get(check_engine_light_data, "emissionsIsOn", LightDefault)
      protect == has_maint /\ Get(check_engine_light_data, "protectIsOn", LightDefault)
      stop == has_maint /\ Get(check_engine_light_data, "stopIsOn", LightDefault)
      dtcs == IF has_maint /\ isinstance_list(dtcs_from_maintenance)
                THEN dtcs_from_maintenance[2] ELSE << >>
      alert == EvaluateAlert(dtcs, warning, emissions, protect, stop)
  IN  [ vehicle_id |-> vehicle_id_str,
        vehicle_name |-> Get(vehicle_details, "name", NA),
        latitude |-> IF has_loc THEN Get(loc_data, "latitude", NA) ELSE NA,
        longitude |-> IF has_loc THEN Get(loc_data, "longitude", NA) ELSE NA,
        speed_mph |-> IF has_loc /\ isinstance_number(speed_value_loc)
                        THEN Hundredths(Round2(Numerator(speed_value_loc),
                                               Denominator(speed_value_loc)))
                        ELSE NA,
        current_address |->
          IF has_loc THEN Get(reverse_geo[2], "formattedLocation", NA) ELSE NA,
        location_updated_at |->
          IF has_loc /\ "time" \in DOMAIN loc_data
            THEN FormatTime(loc_data["time"]) ELSE NA,
        engine_hours |-> Converted(stats_data, "obdEngineSeconds", 3600),
        fuel_perc_remaining |-> NA,
        engine_oil_pressure_kpa |-> Converted(stats_data, "engineOilPressureKPa", 1),
        engine_coolant_temperature_c |->
          Converted(stats_data, "engineCoolantTemperatureMilliC", 1000),
        ambient_air_temperature_c |->
          Converted(stats_data, "ambientAirTemperatureMilliC", 1000),
        engine_rpm |-> IF "engineRpm" \in DOMAIN stats_data
                          /\ isinstance_number(stats_data["engineRpm"])
                         THEN stats_data["engineRpm"] ELSE NA,
        engine_check_light_warning |-> warning,
        engine_check_light_emissions |-> emissions,
        engine_check_light_protect |-> protect,
        engine_check_light_stop |-> stop,
        diagnostic_trouble_codes |-> dtcs,
        last_data_sync |-> clock,
        status_alert |-> alert.status_alert,
        alert_color |-> alert.alert_color ]

(* ------------------------------- state -------------------------------- *)
VARIABLES
  srv,                    \* the upstream server the run talks to
  now,                    \* wall clock, seconds
  pc,                     \* position of the script run
  cycles, faults,         \* runs started, failed requests
  roster_cache,           \* st.cache_data of get_all_vehicle_details_list
  dynamic_cache,          \* st.cache_data of fetch_samsara_data_multiple_vehicles
  all_gemelos_digitales,  \* st.session_state.all_gemelos_digitales
  all_vehicle_details,    \* st.session_state.all_vehicle_details
  initial_load_complete,  \* st.session_state.initial_load_complete
  vehicle_details_list, vehicle_ids, locations, stats, maintenance,
  all_vehicles, next_cursor, page,
  locations_map, loc_i,
  maintenance_map, target_id_set, maint_cursor, page_count,
  stats_map, stat_i, type_k,
  reqs,                   \* the requests this run has issued, in order
  messages,               \* what this run has shown to the user
  trigger,                \* what started this run
  outcome,                \* how the last run ended
  previous_gemelos        \* the twin mapping the last build replaced

session == << all_gemelos_digitales, all_vehicle_details, initial_load_complete >>
script == << vehicle_details_list, vehicle_ids, locations, stats, maintenance >>
roster_locals == << all_vehicles, next_cursor, page >>
loc_locals == << locations_map, loc_i >>
maint_locals == << maintenance_map, target_id_set, maint_cursor, page_count >>
stat_locals == << stats_map, stat_i, type_k >>
budgets == << cycles, faults, previous_gemelos >>
caches == << roster_cache, dynamic_cache >>
vars == << srv, now, pc, budgets, caches, session, script, roster_locals,
           loc_locals, maint_locals, stat_locals, reqs, messages, trigger,
           outcome >>

(* ------------------------------- cache -------------------------------- *)
\* An entry that answers whatever its age.
CacheHitForever(cache, key, ttl, clock) == key \in DOMAIN cache

\* st.cache_data(ttl=...): an entry answers a call with its key until it is
\* ttl seconds old.
CacheHit(cache, key, ttl, clock) ==
  key \in DOMAIN cache /\ clock < cache[key].stored + ttl

\* Storing drops the entries that have expired.
CacheStore(cache, key, value, ttl, clock) ==
  [ k \in { x \in DOMAIN cache : clock < cache[x].stored + ttl } \cup {key} |->
      IF k = key THEN [ value |-> value, stored |-> clock ] ELSE cache[k] ]

\* A clear that leaves the dynamic entries in place.
KeptDynamic == dynamic_cache

\* st.cache_data.clear(): what is left of each function's cache.
ClearedRoster == EmptyMap
ClearedDynamic == EmptyMap

NoArgs == << >>

(* ------------------------------ requests ------------------------------ *)
\* A request is answered, or raises a RequestException at once (connection
\* or HTTP error, raise_for_status) or when its timeout has run out; it can
\* fail while the upstream still has failures to give.
Answers == IF faults < MaxFaults THEN {"ok", "error", "timeout"} ELSE {"ok"}

\* Seconds a request takes: requests.get(..., timeout=t).
Latency(answer, t) == IF answer = "timeout" THEN t ELSE 0

Request(ep, after, ids, types, ok) ==
  [ ep |-> ep, after |-> after, ids |-> ids, types |-> types, ok |-> ok ]

\* One request: its log entry, its cost in time and in failures.
Issue(req, d) ==
  /\ reqs' = Append(reqs, req)
  /\ now' = now + d
  /\ faults' = IF req.ok THEN faults ELSE faults + 1
  /\ UNCHANGED << srv, cycles, trigger, previous_gemelos >>

Put(map, k, v) == [ x \in (DOMAIN map) \cup {k} |-> IF x = k THEN v ELSE map[x] ]

(* --------------------- get_all_vehicle_details_list -------------------- *)
\* Lines 108-110: the query of the next roster request.
RosterAfter(cursor) == IF cursor # None THEN cursor ELSE None

\* Line 118: all_vehicles.extend(current_page_vehicles)
RosterExtend(acc, current_page_vehicles) == acc \o current_page_vehicles

\* A failed page that throws away what has been gathered.
RosterDropOnError(acc) == << >>

\* Lines 128-130: a failed page ends the loop with what has been gathered.
RosterOnError(acc) == acc

\* A roster fetch whose empty result is returned but not stored.
RosterReturnUnlessEmpty(result) ==
  /\ vehicle_details_list' = result
  /\ roster_cache' = IF result = << >> THEN roster_cache
                     ELSE CacheStore(roster_cache, NoArgs, result, ROSTER_TTL, now')
  /\ all_vehicles' = << >>
  /\ next_cursor' = None
  /\ page' = 1
  /\ pc' = "roster_check"

\* Line 135 under the decorator of line 91: the result is returned and stored.
RosterReturn(result) ==
  /\ vehicle_details_list' = result
  /\ roster_cache' = CacheStore(roster_cache, NoArgs, result, ROSTER_TTL, now')
  /\ all_vehicles' = << >>
  /\ next_cursor' = None
  /\ page' = 1
  /\ pc' = "roster_check"

\* Line 560: the memoized call.
CallRoster ==
  /\ pc = "roster_call"
  /\ IF CacheHit(roster_cache, NoArgs, ROSTER_TTL, now)
       THEN /\ vehicle_details_list' = roster_cache[NoArgs].value
            /\ pc' = "roster_check"
       ELSE /\ pc' = "roster_loop"
            /\ UNCHANGED vehicle_details_list
  /\ UNCHANGED << srv, now, budgets, caches, session, vehicle_ids, locations,
                  stats, maintenance, roster_locals, loc_locals, maint_locals,
                  stat_locals, reqs, messages, trigger, outcome >>

\* Lines 107-130: one turn of the loop, one request.
RosterRequest ==
  /\ pc = "roster_loop"
  /\ page <= MaxPages
  /\ \E answer \in Answers :
       LET ok == answer = "ok"
           d == Latency(answer, TIMEOUT_DEFAULT)
       IN
       /\ Issue(Request("vehicles", RosterAfter(next_cursor), << >>, << >>, ok), d)
       /\ IF ok
            THEN LET data == RosterResponse(srv, RosterAfter(next_cursor))
                     grown == RosterExtend(all_vehicles, Get(data, "data", << >>))
                     cursor == Get(Get(data, "pagination", EmptyMap),
                                   "endCursor", None)
                 IN  /\ messages' = messages
                     /\ IF cursor = None
                          THEN RosterReturn(grown)
                          ELSE /\ all_vehicles' = grown
                               /\ next_cursor' = cursor
                               /\ page' = page + 1
                               /\ pc' = pc
                               /\ UNCHANGED << vehicle_details_list, roster_cache >>
            ELSE /\ messages' = messages \cup {"error_roster_page"}
                 /\ RosterReturn(RosterOnError(all_vehicles))
  /\ UNCHANGED << dynamic_cache, session, vehicle_ids, locations, stats,
                  maintenance, loc_locals, maint_locals, stat_locals, outcome >>

(* ----------------------------- main script ---------------------------- *)
\* A script that goes on with whatever roster it has.
RosterAlwaysUsable(list) == TRUE

\* Line 562: `if vehicle_details_list:`
RosterUsable(list) == Len(list) > 0

\* An ID list in the opposite order of the roster.
VehicleIdsReversed(list) ==
  [ k \in 1..Len(list) |-> str(Get(list[Len(list) + 1 - k], "id", Null)) ]

\* Line 564: vehicle_ids = [str(v.get('id')) for v in vehicle_details_list]
VehicleIds(list) == [ k \in 1..Len(list) |-> str(Get(list[k], "id", Null)) ]

\* Lines 562-564.
UseRoster ==
  /\ pc = "roster_check"
  /\ RosterUsable(vehicle_details_list)
  /\ all_vehicle_details' = vehicle_details_list
  /\ vehicle_ids' = VehicleIds(vehicle_details_list)
  /\ pc' = "dyn_call"
  /\ UNCHANGED << srv, now, budgets, caches, all_gemelos_digitales,
                  initial_load_complete, vehicle_details_list, locations, stats,
                  maintenance, roster_locals, loc_locals, maint_locals,
                  stat_locals, reqs, messages, trigger, outcome >>

\* Lines 587-589: st.error and st.stop().
HaltOnEmptyRoster ==
  /\ pc = "roster_check"
  /\ ~RosterUsable(vehicle_details_list)
  /\ messages' = messages \cup {"error_no_vehicles"}
  /\ outcome' = "halted"
  /\ pc' = "idle"
  /\ UNCHANGED << srv, now, budgets, caches, session, script, roster_locals,
                  loc_locals, maint_locals, stat_locals, reqs, trigger >>

(* ------------------------ get_vehicle_locations ------------------------ *)
\* Lines 223-224: locations_map[loc['id']] = loc['location'], item by item;
\* the last item of an ID is the one that stays.
MergeLocations(map, items) ==
  LET key(j) == items[j]["id"][2]
      last(k) == CHOOSE j \in 1..Len(items) :
                   key(j) = k /\ \A m \in (j + 1)..Len(items) : key(m) # k
      new == { key(j) : j \in 1..Len(items) }
  IN  [ k \in (DOMAIN map) \cup new |->
          IF k \in new THEN items[last(k)]["location"] ELSE map[k] ]

\* Line 224 reads loc['id'] and loc['location'] of every item: an item
\* without one of them raises KeyError.
Subscriptable(items) ==
  \A j \in 1..Len(items) : {"id", "location"} \subseteq DOMAIN items[j]

\* A failed chunk that ends the loop.
LocBreakOnFailure(i, n) == n

\* Lines 226-228: the offset the loop goes on with after a failed chunk.
LocAfterFailure(i, n) == i + batch_size

\* Line 157: the maintenance fetch starts when the locations are in.
StartMaintenance ==
  /\ maintenance_map' = EmptyMap
  /\ target_id_set' = Range(vehicle_ids)
  /\ maint_cursor' = None
  /\ page_count' = 0
  /\ pc' = "maint_loop"

\* Lines 213-230: one turn of the loop, one request.
LocRequest ==
  /\ pc = "loc_loop"
  /\ \E answer \in Answers :
       LET ok == answer = "ok"
           d == Latency(answer, TIMEOUT_DEFAULT)
       IN
       LET batch_ids == Slice(vehicle_ids, loc_i, batch_size)
           locations_data == Get(LocationsResponse(srv, batch_ids), "data", << >>)
           merged == IF ok THEN MergeLocations(locations_map, locations_data)
                     ELSE locations_map
           next_i == IF ok THEN loc_i + batch_size
                     ELSE LocAfterFailure(loc_i, Len(vehicle_ids))
       IN  /\ Issue(Request("locations", None, batch_ids, << >>, ok), d)
           /\ IF ok /\ ~Subscriptable(locations_data)
                \* KeyError is no RequestException: nothing up to the script
                \* catches it and the run ends there, nothing stored.
                THEN /\ locations_map' = EmptyMap
                     /\ loc_i' = 0
                     /\ pc' = "idle"
                     /\ outcome' = "crashed"
                     /\ messages' = messages \cup {"exception_KeyError"}
                     /\ UNCHANGED << locations, maint_locals >>
              ELSE IF next_i < Len(vehicle_ids)
                THEN /\ locations_map' = merged
                     /\ loc_i' = next_i
                     /\ pc' = pc
                     /\ messages' = IF ok THEN messages
                                    ELSE messages \cup {"warn_loc_chunk"}
                     /\ UNCHANGED << locations, maint_locals, outcome >>
                ELSE /\ locations' = merged
                     /\ outcome' = outcome
                     /\ locations_map' = EmptyMap
                     /\ loc_i' = 0
                     /\ messages' =
                          messages
                          \cup (IF ok THEN {} ELSE {"warn_loc_chunk"})
                          \cup (IF DOMAIN merged = {} THEN {"warn_no_locations"}
                                ELSE {})
                     /\ StartMaintenance
  /\ UNCHANGED << caches, session, vehicle_details_list, vehicle_ids, stats,
                  maintenance, roster_locals, stat_locals >>

(* ------------------- get_all_vehicle_maintenance_data ------------------ *)
\* A filter that records every item of a wanted ID and leaves the working
\* set as it was: the last item of an ID is the one that stays.
FilterPageKeepLast(map, targets, items) ==
  LET key(j) == str(Get(items[j], "id", Null))
      last(k) == CHOOSE j \in 1..Len(items) :
                   key(j) = k /\ \A m \in (j + 1)..Len(items) : key(m) # k
      found == { key(j) : j \in 1..Len(items) } \cap targets
  IN  [ map |-> [ k \in (DOMAIN map) \cup found |->
                    IF k \in found THEN items[last(k)] ELSE map[k] ],
        targets |-> targets ]

\* Lines 306-310: the items of one page against the working set; an ID
\* leaves the working set at its first item, so that item is the one kept.
FilterPage(map, targets, items) ==
  LET key(j) == str(Get(items[j], "id", Null))
      first(k) == CHOOSE j \in 1..Len(items) :
                    key(j) = k /\ \A m \in 1..(j - 1) : key(m) # k
      found == { key(j) : j \in 1..Len(items) } \cap targets
  IN  [ map |-> [ k \in (DOMAIN map) \cup found |->
                    IF k \in found THEN items[first(k)] ELSE map[k] ],
        targets |-> targets \ found ]

\* A loop that no page ends.
MaintenanceNeverStops(cursor, targets) == FALSE

\* A loop that only ends with the last page.
MaintenanceStopsAtEnd(cursor, targets) == cursor = None

\* Line 316: `if not next_cursor or not target_id_set: break`
MaintenanceStops(cursor, targets) == cursor = None \/ targets = {}

\* A failed page that returns what the earlier pages gave.
MaintenanceKeepOnError(map) == map

\* Lines 319-321: a failed page gives `return {}`.
MaintenanceOnError(map) == EmptyMap

\* A stat fetch that keeps a slot only for the vehicles the location fetch
\* found.
StartStatsFromLocations ==
  /\ stats_map' = [ vid \in Range(vehicle_ids) \cap DOMAIN locations |-> EmptyMap ]
  /\ stat_i' = 0
  /\ type_k' = 1
  /\ pc' = "stats_loop"

\* Lines 236-243, 169: the stat fetch starts when maintenance is in.
StartStats ==
  /\ stats_map' = [ vid \in Range(vehicle_ids) |-> EmptyMap ]
  /\ stat_i' = 0
  /\ type_k' = 1
  /\ pc' = "stats_loop"

MaintenanceReturn(result) ==
  /\ maintenance' = result
  /\ maintenance_map' = EmptyMap
  /\ target_id_set' = {}
  /\ maint_cursor' = None
  /\ page_count' = 0
  /\ StartStats

\* Lines 290-321: one turn of the loop, one request.
MaintRequest ==
  /\ pc = "maint_loop"
  /\ page_count < MaxPages
  /\ \E answer \in Answers :
       LET ok == answer = "ok"
           d == Latency(answer, TIMEOUT_DEFAULT)
       IN
       /\ Issue(Request("maintenance", maint_cursor, << >>, << >>, ok), d)
       /\ IF ok
            THEN LET response_data == MaintenanceResponse(srv, maint_cursor)
                     first == Get(response_data, "vehicleMaintenance", << >>)
                     current_page_items ==
                       IF Len(first) = 0
                         THEN Get(response_data, "vehicles", << >>) ELSE first
                     kept == FilterPage(maintenance_map, target_id_set,
                                        current_page_items)
                     cursor == Get(Get(response_data, "pagination", EmptyMap),
                                   "endCursor", None)
                 IN  IF MaintenanceStops(cursor, kept.targets)
                       THEN /\ MaintenanceReturn(kept.map)
                            /\ messages' =
                                 IF DOMAIN kept.map = {}
                                   THEN messages \cup {"warn_no_maintenance"}
                                   ELSE messages
                       ELSE /\ maintenance_map' = kept.map
                            /\ target_id_set' = kept.targets
                            /\ maint_cursor' = cursor
                            /\ page_count' = page_count + 1
                            /\ pc' = pc
                            /\ messages' = messages
                            /\ UNCHANGED << maintenance, stat_locals >>
            ELSE /\ MaintenanceReturn(MaintenanceOnError(maintenance_map))
                 /\ messages' = messages \cup {"error_maintenance_page",
                                               "warn_no_maintenance"}
  /\ UNCHANGED << caches, session, vehicle_details_list, vehicle_ids, locations,
                  stats, roster_locals, loc_locals, outcome >>

(* -------------------- get_stats_for_multiple_vehicles ------------------ *)
\* Every stat type in one request.
AllTypesAtOnce == << all_desired_stat_types >>

\* Line 240.
stat_type_batches == Batches(all_desired_stat_types, stat_type_batch)

\* A merge that stores the field as it came.
KeepEnvelope(v) == v

\* Lines 265-268: the value kept for one field of an item.
Unwrap(v) ==
  IF isinstance_dict(v) /\ "value" \in DOMAIN v[2] THEN v[2]["value"] ELSE v

\* Lines 260-268: the items of one response, in order; for a vehicle of
\* the map each type of the batch takes the value of the last item that has it.
MergeStats(map, items, batch_of_types) ==
  LET key(j) == Get(items[j], "id", Null)[2]
      having(vid, t) == { j \in 1..Len(items) : key(j) = vid /\ t \in DOMAIN items[j] }
      last(vid, t) == CHOOSE j \in having(vid, t) : \A m \in having(vid, t) : m <= j
      fresh(vid) == { t \in Range(batch_of_types) : having(vid, t) # {} }
  IN  [ vid \in DOMAIN map |->
          [ t \in (DOMAIN map[vid]) \cup fresh(vid) |->
              IF t \in fresh(vid) THEN Unwrap(items[last(vid, t)][t])
              ELSE map[vid][t] ] ]

\* Lines 245-272: the (ID offset, type batch) the loops go on with after a
\* request; the try block holds the whole inner loop.
StatsNext(i, k, ok) ==
  IF ok /\ k < Len(stat_type_batches) THEN << i, k + 1 >>
  ELSE << i + batch_size, 1 >>

\* Line 174 under the decorator of line 139.
DynamicReturn(result_stats) ==
  /\ stats' = result_stats
  /\ dynamic_cache' =
       CacheStore(dynamic_cache, vehicle_ids,
                  << locations, result_stats, maintenance >>, DYNAMIC_TTL, now')
  /\ stats_map' = EmptyMap
  /\ stat_i' = 0
  /\ type_k' = 1
  /\ pc' = "build"

\* Lines 245-274: one request of the nested loops.
StatRequest ==
  /\ pc = "stats_loop"
  /\ \E answer \in Answers :
       LET ok == answer = "ok"
           d == Latency(answer, TIMEOUT_STATS)
       IN
       LET batch_ids == Slice(vehicle_ids, stat_i, batch_size)
           batch_of_types == stat_type_batches[type_k]
           data == Get(StatsResponse(srv, batch_ids, batch_of_types), "data", << >>)
           merged == IF ok THEN MergeStats(stats_map, data, batch_of_types)
                     ELSE stats_map
           next == StatsNext(stat_i, type_k, ok)
       IN  /\ Issue(Request("stats", None, batch_ids, batch_of_types, ok), d)
           /\ messages' = IF ok THEN messages
                          ELSE messages \cup {"error_stats_batch"}
           /\ IF next[1] < Len(vehicle_ids)
                THEN /\ stats_map' = merged
                     /\ stat_i' = next[1]
                     /\ type_k' = next[2]
                     /\ pc' = pc
                     /\ UNCHANGED << stats, dynamic_cache >>
                ELSE DynamicReturn(merged)
  /\ UNCHANGED << roster_cache, session, vehicle_details_list, vehicle_ids,
                  locations, maintenance, roster_locals, loc_locals,
                  maint_locals, outcome >>

(* ------------------ fetch_samsara_data_multiple_vehicles --------------- *)
\* Lines 570/573: the memoized call; a miss starts with the locations, or
\* with no ID at all returns three empty maps (lines 147-149).
CallDynamic ==
  /\ pc = "dyn_call"
  /\ IF CacheHit(dynamic_cache, vehicle_ids, DYNAMIC_TTL, now)
       THEN /\ locations' = dynamic_cache[vehicle_ids].value[1]
            /\ stats' = dynamic_cache[vehicle_ids].value[2]
            /\ maintenance' = dynamic_cache[vehicle_ids].value[3]
            /\ pc' = "build"
            /\ UNCHANGED << dynamic_cache, messages >>
       ELSE IF Len(vehicle_ids) = 0
              THEN /\ dynamic_cache' =
                        CacheStore(dynamic_cache, vehicle_ids,
                                   << EmptyMap, EmptyMap, EmptyMap >>,
                                   DYNAMIC_TTL, now)
                   /\ messages' = messages \cup {"warn_no_ids"}
                   /\ pc' = "build"
                   /\ UNCHANGED << locations, stats, maintenance >>
              ELSE /\ pc' = "loc_loop"
                   /\ UNCHANGED << locations, stats, maintenance, dynamic_cache,
                                   messages >>
  /\ UNCHANGED << srv, now, budgets, roster_cache, session, vehicle_details_list,
                  vehicle_ids, roster_locals, loc_locals, maint_locals,
                  stat_locals, reqs, trigger, outcome >>

(* ------------------------- twins and reruns --------------------------- *)
\* A builder that leaves out the vehicles it has no position for.
BuildLocatedTwins(details, locs, sts, maint, clock) ==
  [ vid \in { TwinKey(details[k]) : k \in 1..Len(details) } \cap DOMAIN locs |->
      process_vehicle_data(
        details[CHOOSE k \in 1..Len(details) : TwinKey(details[k]) = vid],
        locs, sts, maint, clock) ]

\* A builder that writes into the stored mapping.
BuildOntoStored(details, locs, sts, maint, clock) ==
  [ vid \in { TwinKey(details[k]) : k \in 1..Len(details) }
            \cup DOMAIN all_gemelos_digitales |->
      IF \E k \in 1..Len(details) : TwinKey(details[k]) = vid
        THEN process_vehicle_data(
               details[CHOOSE k \in 1..Len(details) : TwinKey(details[k]) = vid],
               locs, sts, maint, clock)
        ELSE all_gemelos_digitales[vid] ]

\* Lines 577-580: one twin per roster item, keyed by its vehicle_id; a later
\* item of the same ID replaces an earlier one.
BuildTwinMap(details, locs, sts, maint, clock) ==
  LET key(k) == TwinKey(details[k])
      last(vid) == CHOOSE k \in 1..Len(details) :
                     key(k) = vid /\ \A j \in (k + 1)..Len(details) : key(j) # vid
  IN  [ vid \in { key(k) : k \in 1..Len(details) } |->
          process_vehicle_data(details[last(vid)], locs, sts, maint, clock) ]

\* Lines 576-585.
BuildTwins ==
  /\ pc = "build"
  /\ all_gemelos_digitales' =
       BuildTwinMap(all_vehicle_details, locations, stats, maintenance, now)
  /\ initial_load_complete' = TRUE
  /\ outcome' = "completed"
  /\ pc' = "idle"
  /\ previous_gemelos' = all_gemelos_digitales
  /\ UNCHANGED << srv, now, cycles, faults, caches, all_vehicle_details, script,
                  roster_locals, loc_locals, maint_locals, stat_locals, reqs,
                  messages, trigger >>

\* A new run of the script: its locals and its output start afresh.
StartRun(by) ==
  /\ trigger' = by
  /\ cycles' = cycles + 1
  /\ pc' = "roster_call"
  /\ vehicle_details_list' = << >>
  /\ vehicle_ids' = << >>
  /\ locations' = EmptyMap
  /\ stats' = EmptyMap
  /\ maintenance' = EmptyMap
  /\ reqs' = << >>
  /\ messages' = {}
  /\ outcome' = "running"
  /\ UNCHANGED << srv, faults, previous_gemelos, roster_locals, loc_locals,
                  maint_locals,
                  stat_locals >>

\* Time between the end of a run and the next one.
Delays == { DYNAMIC_TTL - 1, DYNAMIC_TTL, ROSTER_TTL - 1, ROSTER_TTL }

\* A rerun some time after the last run ended (a widget, the timer).
Rerun ==
  /\ pc = "idle"
  /\ cycles < MaxCycles
  /\ \E dt \in Delays : now' = now + dt
  /\ StartRun("rerun")
  /\ UNCHANGED << caches, session >>

\* Lines 539-542: the button clears every cache and reruns the script.
ManualRefresh ==
  /\ pc = "idle"
  /\ cycles < MaxCycles
  /\ roster_cache' = ClearedRoster
  /\ dynamic_cache' = ClearedDynamic
  /\ initial_load_complete' = FALSE
  /\ now' = now
  /\ StartRun("manual")
  /\ UNCHANGED << all_gemelos_digitales, all_vehicle_details >>

(* --------------------------- specification ---------------------------- *)
ServerConfigs == { EmptyServer, PagedServer, NoisyServer }

\* Lines 549-554 and the first run of the script.
InitWith(servers) ==
  /\ srv \in servers
  /\ now = 0
  /\ pc = "roster_call"
  /\ cycles = 1 /\ faults = 0
  /\ roster_cache = EmptyMap /\ dynamic_cache = EmptyMap
  /\ all_gemelos_digitales = EmptyMap
  /\ all_vehicle_details = << >>
  /\ initial_load_complete = FALSE
  /\ vehicle_details_list = << >> /\ vehicle_ids = << >>
  /\ locations = EmptyMap /\ stats = EmptyMap /\ maintenance = EmptyMap
  /\ all_vehicles = << >> /\ next_cursor = None /\ page = 1
  /\ locations_map = EmptyMap /\ loc_i = 0
  /\ maintenance_map = EmptyMap /\ target_id_set = {}
  /\ maint_cursor = None /\ page_count = 0
  /\ stats_map = EmptyMap /\ stat_i = 0 /\ type_k = 1
  /\ reqs = << >> /\ messages = {} /\ trigger = "first" /\ outcome = "running"
  /\ previous_gemelos = EmptyMap

Init == InitWith(ServerConfigs)

Fetch ==
  \/ CallRoster \/ RosterRequest \/ UseRoster \/ HaltOnEmptyRoster
  \/ CallDynamic \/ LocRequest \/ MaintRequest \/ StatRequest \/ BuildTwins

Next == Fetch \/ Rerun \/ ManualRefresh

Spec == Init /\ [][Next]_vars

\* One run of the script against a fleet of more than one ID chunk.
InitBig == InitWith({BigServer})
SpecBig == InitBig /\ [][Fetch]_vars

\* One run of the script against a server with a malformed location item.
InitBroken == InitWith({BrokenServer, HeadlessServer})
SpecBroken == InitBroken /\ [][Fetch]_vars

\* One run of the script against maintenance lists that repeat vehicles.
InitMaint == InitWith({RepeatingServer, NoisyServer})
SpecMaint == InitMaint /\ [][Fetch]_vars

\* The run has no step left: the script has ended, or a paginated loop has
\* been followed for MaxPages pages.
Stopped ==
  \/ pc = "idle"
  \/ pc = "roster_loop" /\ page > MaxPages
  \/ pc = "maint_loop" /\ page_count >= MaxPages

\* Stopped is what disables Fetch.
StoppedIsDisabled == Stopped <=> ~ENABLED << Fetch >>_vars

\* One run of the script that is never held up: every request comes back,
\* answered or failed, within its timeout (lines 113, 218, 255, 297), and the
\* script then takes its next step.  This is weak fairness of Fetch,
\* WF_vars(Fetch), with ~ENABLED << Fetch >>_vars written out as Stopped.
FairFetch == []<>Stopped \/ []<><< Fetch >>_vars

\* The endless server gives a cursor with every page.
InitTerm == InitWith({BigServer, EndlessServer})
SpecTerm == InitTerm /\ [][Fetch]_vars /\ FairFetch

\* Line 529: st_autorefresh reruns the script at every multiple of 60 s;
\* nobody touches the page.
Poll ==
  /\ pc = "idle"
  /\ cycles < MaxPolls
  /\ now' = POLL_INTERVAL * ((now \div POLL_INTERVAL) + 1)
  /\ StartRun("poll")
  /\ UNCHANGED << caches, session >>

InitPoll == InitWith({EmptyServer, PagedServer})
NextPoll == Fetch \/ Poll
SpecPoll == InitPoll /\ [][NextPoll]_vars

(* ------------------------- one twin, any inputs ----------------------- *)
\* Longest DTC list of a maintenance record.
MaxDtcs == 2

\* What a field of a stat or location answer can hold: 85000 and 7384, a zero,
\* 1234.5678 and -0.0049, true, null, a string, an envelope with no value,
\* a list.
FieldValues ==
  { Num(85000), Num(7384), Num(0), Dec(12345678), Dec(0 - 49), Bool(TRUE),
    Null, Str(7), Obj([ k \in {"time"} |-> Str(1) ]), List(<< >>) }

\* The stats map: nothing for the vehicle, or some of its fields, all
\* holding one value.
StatInputs ==
  { EmptyMap }
  \cup { [ vid \in {1} |-> [ t \in K |-> v ] ] :
           v \in FieldValues,
           K \in { Range(all_desired_stat_types), {"obdEngineSeconds"}, {} } }

\* The location map: nothing for the vehicle, null, an empty object, or a
\* position with any speed.
LocationInputs ==
  { EmptyMap, [ vid \in {1} |-> Null ], [ vid \in {1} |-> Obj(EmptyMap) ] }
  \cup { [ vid \in {1} |->
             Obj([ k \in {"latitude", "longitude", "speed", "time", "reverseGeo"} |->
                     IF k = "speed" THEN v ELSE LocationOf(1)[k] ]) ] :
           v \in FieldValues }
  \cup { [ vid \in {1} |-> Obj([ k \in {"speed", "time"} |->
                                   IF k = "speed" THEN v ELSE Str(2) ]) ] :
           v \in FieldValues }

DtcCodes == { [ spnId |-> 100, fmiId |-> 1 ], [ spnId |-> 200, fmiId |-> 2 ],
              [ fmiId |-> 3 ] }
DtcLists == UNION { [ 1..n -> DtcCodes ] : n \in 0..MaxDtcs }
LightNames == {"warningIsOn", "emissionsIsOn", "protectIsOn", "stopIsOn"}
LightInputs == UNION { [ K -> BOOLEAN ] : K \in { LightNames, {} } }

\* The j1939 block: null, empty, or lights with a DTC list or with something
\* that is no list.
J1939Inputs ==
  { Null, Obj(EmptyMap) }
  \cup { Obj([ k \in {"checkEngineLight", "diagnosticTroubleCodes"} |->
                 IF k = "checkEngineLight" THEN Obj(l) ELSE d ]) :
           l \in LightInputs, d \in { List(q) : q \in DtcLists } \cup { Null } }

\* The maintenance map: nothing for the vehicle, a record with no j1939
\* field, or one with a j1939 block.
MaintenanceInputs ==
  { EmptyMap, [ vid \in {1} |-> [ k \in {"id"} |-> Num(1) ] ] }
  \cup { [ vid \in {1} |-> [ k \in {"id", "j1939"} |->
                               IF k = "id" THEN Num(1) ELSE j ] ] :
           j \in J1939Inputs }

\* Lines 576-580 reached with one roster vehicle and any fetch results.
InitTwin ==
  /\ srv = PagedServer
  /\ now = 0
  /\ pc = "build"
  /\ cycles = 1 /\ faults = 0
  /\ roster_cache = EmptyMap /\ dynamic_cache = EmptyMap
  /\ all_gemelos_digitales = EmptyMap
  /\ all_vehicle_details = << VehicleItem(1) >>
  /\ initial_load_complete = FALSE
  /\ vehicle_details_list = all_vehicle_details
  /\ vehicle_ids = VehicleIds(all_vehicle_details)
  /\ locations \in LocationInputs
  /\ stats \in StatInputs
  /\ maintenance \in MaintenanceInputs
  /\ all_vehicles = << >> /\ next_cursor = None /\ page = 1
  /\ locations_map = EmptyMap /\ loc_i = 0
  /\ maintenance_map = EmptyMap /\ target_id_set = {}
  /\ maint_cursor = None /\ page_count = 0
  /\ stats_map = EmptyMap /\ stat_i = 0 /\ type_k = 1
  /\ reqs = << >> /\ messages = {} /\ trigger = "first" /\ outcome = "running"
  /\ previous_gemelos = EmptyMap

SpecTwin == InitTwin /\ [][BuildTwins]_vars

(* ------------------------------ properties ---------------------------- *)
\* The requests of this run to one endpoint, in the order issued.
RequestsTo(ep) == SelectSeq(reqs, LAMBDA r : r.ep = ep)

\* The IDs of the roster snapshot of this run.
RosterIds ==
  { vehicle_details_list[k]["id"][2] : k \in 1..Len(vehicle_details_list) }

\* C1: after a run that completes, the twin mapping has exactly one entry for
\* every vehicle ID of that run's roster snapshot and none for any other ID,
\* whatever IDs the location, stat and maintenance maps hold.
C1_TwinsMatchRoster ==
  outcome = "completed" =>
    /\ DOMAIN all_gemelos_digitales = RosterIds
    /\ \A vid \in DOMAIN all_gemelos_digitales :
         all_gemelos_digitales[vid].vehicle_id = vid

\* A completed run whose location map holds an ID that is not in the roster
\* and lacks an ID that is.
C1_Witness ==
  /\ outcome = "completed"
  /\ Len(vehicle_details_list) >= 2
  /\ (DOMAIN locations) \ RosterIds # {}
  /\ RosterIds \ (DOMAIN locations) # {}
  /\ RosterIds \ (DOMAIN maintenance) # {}

\* C3: a failed maintenance request is the last one of its fetch, and the
\* fetch returns the empty map whatever the earlier pages matched.
C3_MaintenanceAbort ==
  LET m == RequestsTo("maintenance")
  IN  (\E k \in 1..Len(m) : ~m[k].ok) =>
        /\ \A k \in 1..Len(m) : m[k].ok <=> k < Len(m)
        /\ pc # "maint_loop"
        /\ maintenance = EmptyMap

\* The first page matched a target and the second one failed.
C3_Witness ==
  LET m == RequestsTo("maintenance")
      first == Get(MaintenanceResponse(srv, None), "vehicleMaintenance", << >>)
  IN  /\ outcome = "completed"
      /\ Len(m) = 2 /\ m[1].ok /\ ~m[2].ok
      /\ \E j \in 1..Len(first) : str(first[j]["id"]) \in Range(vehicle_ids)
      /\ maintenance = EmptyMap

\* The items of the roster pages the answered requests of r asked for, in
\* request order.
RECURSIVE RosterPages(_, _)
RosterPages(r, k) ==
  IF k = 0 THEN << >>
  ELSE RosterPages(r, k - 1)
       \o (IF r[k].ok THEN RosterResponse(srv, r[k].after)["data"] ELSE << >>)

\* The cursor the server gave with the answer to request q.
RosterCursorOf(q) == PageCursor(Ids(1, srv.fleet), srv.limit, q.after)

\* C5: the roster fetch asks for page after page, each request carrying the
\* cursor of the answer before it, until an answer has no cursor or a request
\* fails, and returns the pages answered so far in request order.
C5_RosterPagination ==
  LET r == RequestsTo("vehicles")
  IN  /\ Len(r) > 0 => r[1].after = None
      /\ \A k \in 1..(Len(r) - 1) :
           /\ r[k].ok
           /\ RosterCursorOf(r[k]) # None
           /\ r[k + 1].after = RosterCursorOf(r[k])
      /\ pc = "roster_loop" => all_vehicles = RosterPages(r, Len(r))
      /\ (Len(r) > 0 /\ pc # "roster_loop") =>
           /\ r[Len(r)].ok => RosterCursorOf(r[Len(r)]) = None
           /\ vehicle_details_list = RosterPages(r, Len(r))
           /\ roster_cache[NoArgs].value = vehicle_details_list

\* The request for a later page failed and the earlier pages came back.
C5_Witness ==
  LET r == RequestsTo("vehicles")
  IN  /\ pc = "roster_check"
      /\ Len(r) >= 2 /\ ~r[Len(r)].ok
      /\ Len(vehicle_details_list) > 0
      /\ vehicle_details_list = RosterPages(r, Len(r) - 1)

\* The ID chunks and the type chunks of this run's stat fetch.
IdBatches == Batches(vehicle_ids, batch_size)

\* C2: once the stat fetch has returned, every request of the product of ID
\* chunks and type chunks has been issued, whichever of them failed.
C2_EveryStatRequestIssued ==
  (pc \in {"build", "idle"} /\ Len(RequestsTo("stats")) > 0) =>
    \A b \in 1..Len(IdBatches), k \in 1..Len(stat_type_batches) :
      \E j \in 1..Len(reqs) :
        /\ reqs[j].ep = "stats"
        /\ reqs[j].ids = IdBatches[b]
        /\ reqs[j].types = stat_type_batches[k]

\* The vehicle IDs of the maintenance page request q asked for.
MaintenancePageIds(q) ==
  { PageItems(srv.mlist, srv.limit, q.after)[j] :
      j \in 1..Len(PageItems(srv.mlist, srv.limit, q.after)) }

\* The targets no page up to the k-th request has held.
TargetsLeft(m, k) ==
  Range(vehicle_ids) \ UNION { MaintenancePageIds(m[j]) : j \in 1..k }

MaintenanceCursorOf(q) == PageCursor(srv.mlist, srv.limit, q.after)

\* C4: a maintenance page is requested only while the answer before it had a
\* cursor and left targets unmatched, and an answered fetch ends at the first
\* page without a cursor or with no target left; when the maintenance list
\* holds exactly the targets, one per page, the result has them all after as
\* many requests as there are pages ({A,B}: two).
C4_MaintenanceStops ==
  LET m == RequestsTo("maintenance")
      n == Len(m)
  IN  /\ \A k \in 1..(n - 1) :
           /\ MaintenanceCursorOf(m[k]) # None
           /\ TargetsLeft(m, k) # {}
           /\ m[k + 1].after = MaintenanceCursorOf(m[k])
      /\ (pc = "maint_loop" /\ n > 0) =>
           MaintenanceCursorOf(m[n]) # None /\ TargetsLeft(m, n) # {}
      /\ (n > 0 /\ pc # "maint_loop" /\ m[n].ok) =>
           /\ MaintenanceCursorOf(m[n]) = None \/ TargetsLeft(m, n) = {}
           /\ DOMAIN maintenance = Range(vehicle_ids) \ TargetsLeft(m, n)
           /\ ( /\ srv.limit = 1
                /\ Range(srv.mlist) = Range(vehicle_ids)
                /\ Len(srv.mlist) = Cardinality(Range(vehicle_ids)) )
              => /\ n = Len(srv.mlist)
                 /\ DOMAIN maintenance = Range(vehicle_ids)

\* The fetch ended on an answer that still carried a cursor: every target
\* was matched.
C4_Witness ==
  LET m == RequestsTo("maintenance")
  IN  /\ outcome = "completed"
      /\ Len(m) > 0 /\ m[Len(m)].ok
      /\ MaintenanceCursorOf(m[Len(m)]) # None
      /\ DOMAIN maintenance = Range(vehicle_ids)

\* Targets {A,B}, A alone on the first page, B on the second and last one:
\* both are in the result after two requests.
C4_WitnessTwoPages ==
  LET m == RequestsTo("maintenance")
  IN  /\ outcome = "completed"
      /\ Cardinality(Range(vehicle_ids)) = 2
      /\ Len(m) = 2 /\ m[2].ok
      /\ MaintenancePageIds(m[1]) \in SUBSET Range(vehicle_ids)
      /\ Cardinality(MaintenancePageIds(m[1])) = 1
      /\ MaintenanceCursorOf(m[2]) = None
      /\ DOMAIN maintenance = Range(vehicle_ids)

\* The position of the vehicles the location answer to request q held.
LocationAnswer(q) == LocationsResponse(srv, q.ids)["data"]

\* C6: whichever location chunks fail, one request per ID chunk is issued,
\* and the location map holds exactly the vehicles the answered chunks
\* returned, each with the position returned.
C6_LocationChunks ==
  LET l == RequestsTo("locations")
  IN  (Len(l) > 0 /\ pc # "loc_loop") =>
        /\ Len(l) = Len(IdBatches)
        /\ \A k \in 1..Len(l) : l[k].ids = IdBatches[k]
        /\ \A k \in 1..Len(l) :
             l[k].ok =>
               \A j \in 1..Len(LocationAnswer(l[k])) :
                 /\ LocationAnswer(l[k])[j]["id"][2] \in DOMAIN locations
                 /\ locations[LocationAnswer(l[k])[j]["id"][2]]
                      = LocationAnswer(l[k])[j]["location"]
        /\ \A vid \in DOMAIN locations :
             \E k \in 1..Len(l) :
               /\ l[k].ok
               /\ \E j \in 1..Len(LocationAnswer(l[k])) :
                    LocationAnswer(l[k])[j]["id"][2] = vid

\* The first of two chunks failed and the vehicles of the second are there.
C6_Witness ==
  LET l == RequestsTo("locations")
  IN  /\ outcome = "completed"
      /\ Len(l) = 2 /\ ~l[1].ok /\ l[2].ok
      /\ DOMAIN locations # {}
      /\ (DOMAIN locations) \cap Range(l[1].ids) = {}

\* The age of the entry of a key, in seconds.
Age(cache, key) == now - cache[key].stored

\* C7: a memoized call made less than the TTL (3600 s for the roster, 55 s
\* for the dynamic fetch) after its entry was stored issues no request and
\* returns the stored result; a call with no entry, or with one whose TTL has
\* elapsed, executes the fetch, which issues a request.
C7_CacheWindows ==
  [][ /\ (pc = "roster_call" /\ pc' # pc) =>
           IF NoArgs \in DOMAIN roster_cache /\ Age(roster_cache, NoArgs) < 3600
             THEN /\ pc' = "roster_check"
                  /\ vehicle_details_list' = roster_cache[NoArgs].value
                  /\ reqs' = reqs /\ roster_cache' = roster_cache
             ELSE pc' = "roster_loop"
      /\ (pc = "dyn_call" /\ pc' # pc) =>
           IF vehicle_ids \in DOMAIN dynamic_cache
              /\ Age(dynamic_cache, vehicle_ids) < 55
             THEN /\ pc' = "build"
                  /\ << locations', stats', maintenance' >>
                       = dynamic_cache[vehicle_ids].value
                  /\ reqs' = reqs /\ dynamic_cache' = dynamic_cache
             ELSE pc' = "loc_loop"
      /\ (pc \in {"roster_loop", "loc_loop"}) => Len(reqs') = Len(reqs) + 1
    ]_vars

\* A second run, less than 55 s after the first, served from both caches.
C7_Witness ==
  /\ cycles = 2 /\ trigger = "rerun" /\ outcome = "completed"
  /\ reqs = << >>
  /\ Len(vehicle_ids) > 0
  /\ Age(dynamic_cache, vehicle_ids) = DYNAMIC_TTL - 1

\* C8 (as stated): the run that follows a manual refresh has executed both
\* the roster fetch and the dynamic fetch when it ends.
C8_AlwaysBothFetches ==
  (trigger = "manual" /\ pc = "idle") =>
    /\ Len(RequestsTo("vehicles")) > 0
    /\ Len(RequestsTo("locations")) > 0

\* C8: the run that follows a manual refresh starts with both caches empty,
\* always executes the roster fetch, and executes the dynamic fetch when that
\* roster has a vehicle; with an empty roster it halts without one.
C8_ManualRefresh ==
  trigger = "manual" =>
    /\ pc = "roster_call" => roster_cache = EmptyMap /\ dynamic_cache = EmptyMap
    /\ pc \notin {"roster_call", "roster_loop"} => Len(RequestsTo("vehicles")) > 0
    /\ (pc = "build" \/ outcome = "completed") => Len(RequestsTo("locations")) > 0
    /\ outcome = "halted" =>
         /\ vehicle_details_list = << >>
         /\ Len(RequestsTo("locations")) = 0

\* A manual refresh at the very second the entries were stored, and both
\* fetches executed again.
C8_Witness ==
  /\ trigger = "manual" /\ outcome = "completed" /\ now = 0
  /\ Len(RequestsTo("vehicles")) > 0
  /\ Len(RequestsTo("locations")) > 0

\* The second at which the poll of this run fired.
PollTime == POLL_INTERVAL * (cycles - 1)

C10_EmptyRosterHalts ==
  [][ /\ pc \in {"roster_call", "roster_loop"} => session' = session
      /\ (pc = "roster_check" /\ Len(vehicle_details_list) = 0) =>
           /\ session' = session
           /\ pc' = "idle" /\ outcome' = "halted"
           /\ "error_no_vehicles" \in messages'
           /\ \A j \in 1..Len(reqs') : reqs'[j].ep = "vehicles"
    ]_vars

\* A run halted on an empty roster with the twins of the run before in place.
C10_Witness ==
  /\ outcome = "halted" /\ pc = "idle"
  /\ "error_no_vehicles" \in messages
  /\ all_gemelos_digitales # EmptyMap
  /\ initial_load_complete

\* The stat fetch of this run has returned and none of its requests failed.
StatsFetchedCleanly ==
  /\ pc \in {"build", "idle"}
  /\ Len(RequestsTo("stats")) > 0
  /\ \A j \in 1..Len(RequestsTo("stats")) : RequestsTo("stats")[j].ok

\* C11: with no failed request, n IDs and the five stat types take
\* ceil(n/100) * ceil(5/4) stat requests of at most 100 IDs and 4 types each,
\* and every (ID, type) pair is asked for by exactly one of them; the type
\* chunks are the first four types and the fifth.
C11_StatRequestProduct ==
  StatsFetchedCleanly =>
    LET r == RequestsTo("stats")
        n == Len(vehicle_ids)
    IN  /\ Len(r) = ((n + 99) \div 100) * ((5 + 3) \div 4)
        /\ \A j \in 1..Len(r) :
             /\ Len(r[j].ids) \in 1..100
             /\ Len(r[j].types) \in {1, 4}
             /\ r[j].types \in { SubSeq(all_desired_stat_types, 1, 4),
                                 SubSeq(all_desired_stat_types, 5, 5) }
        /\ \A p \in 1..n, t \in Range(all_desired_stat_types) :
             Cardinality({ j \in 1..Len(r) :
                             /\ \E q \in 1..Len(r[j].ids) :
                                  r[j].ids[q] = vehicle_ids[p]
                             /\ t \in Range(r[j].types) }) = 1

\* 101 IDs: two ID chunks by two type chunks, four requests.
C11_Witness ==
  /\ StatsFetchedCleanly
  /\ Len(vehicle_ids) = BigFleet
  /\ Len(RequestsTo("stats")) = 4
  /\ Len(RequestsTo("stats")[3].ids) = BigFleet - batch_size

\* What the server holds for vehicle vid and type t, out of its envelope.
ServerValue(vid, t) ==
  IF StatOf(vid, t)[1] = "obj" /\ "value" \in DOMAIN StatOf(vid, t)[2]
    THEN StatOf(vid, t)[2]["value"]
    ELSE StatOf(vid, t)

\* The answer to one request for every ID and every type.
UnchunkedAnswer ==
  StatsResponse(srv, vehicle_ids, all_desired_stat_types)["data"]

\* C12: with no failed request the stats map is the one a single request for
\* all IDs and all types gives: one entry per requested vehicle, holding for
\* each type the server has a reading of the server's value, taken out of its
\* {value} envelope when it has one.
C12_ChunkedEqualsUnchunked ==
  StatsFetchedCleanly =>
    /\ stats = MergeStats([ vid \in Range(vehicle_ids) |-> EmptyMap ],
                          UnchunkedAnswer, all_desired_stat_types)
    /\ DOMAIN stats = Range(vehicle_ids)
    /\ \A vid \in DOMAIN stats :
         /\ DOMAIN stats[vid]
              = { t \in Range(all_desired_stat_types) : HasStat(vid, t) }
         /\ \A t \in DOMAIN stats[vid] :
              /\ stats[vid][t] = ServerValue(vid, t)
              /\ stats[vid][t][1] = "num"

\* Two ID chunks merged: a vehicle of each chunk has an unwrapped envelope
\* value and a bare one.
C12_Witness ==
  /\ StatsFetchedCleanly
  /\ Len(RequestsTo("stats")) = 4
  /\ \A vid \in {1, BigFleet} :
       \E t, u \in DOMAIN stats[vid] :
         /\ StatOf(vid, t)[1] = "obj"
         /\ StatOf(vid, u)[1] = "num"

\* The twin of the one vehicle, once built.
Built == outcome = "completed" /\ 1 \in DOMAIN all_gemelos_digitales
Twin == all_gemelos_digitales[1]

\* C13: a vehicle that is in none of the three maps has a twin whose dynamic
\* fields are all 'N/A', whose four lights are off, whose DTC list is empty
\* and whose status is 'OPERANDO NORMALMENTE' in green.
C13_AbsentEverywhere ==
  ( /\ Built
    /\ 1 \notin DOMAIN locations
    /\ 1 \notin DOMAIN stats
    /\ 1 \notin DOMAIN maintenance ) =>
    /\ \A f \in { "latitude", "longitude", "speed_mph", "current_address",
                  "location_updated_at", "engine_hours",
                  "engine_oil_pressure_kpa", "engine_coolant_temperature_c",
                  "engine_rpm", "ambient_air_temperature_c" } :
         Twin[f] = << "N/A" >>
    /\ \A f \in { "engine_check_light_warning", "engine_check_light_emissions",
                  "engine_check_light_protect", "engine_check_light_stop" } :
         Twin[f] = FALSE
    /\ Twin.diagnostic_trouble_codes = << >>
    /\ Twin.status_alert = << << "text", "OPERANDO NORMALMENTE" >> >>
    /\ Twin.alert_color = "green"

C13_Witness ==
  /\ Built
  /\ locations = EmptyMap /\ stats = EmptyMap /\ maintenance = EmptyMap
  /\ Twin.vehicle_id = 1
  /\ Twin.engine_hours = << "N/A" >>

\* The four lights of the twin, in the order of the message.
TwinLights ==
  << Twin.engine_check_light_warning, Twin.engine_check_light_emissions,
     Twin.engine_check_light_protect, Twin.engine_check_light_stop >>

\* C14: a built twin is red with a status that starts with 'ALERTA: ' exactly
\* when its DTC list is non-empty or one of its four lights is on; otherwise
\* its status is 'OPERANDO NORMALMENTE' and it is green.
C14_AlertIffFault ==
  Built =>
    IF Len(Twin.diagnostic_trouble_codes) > 0 \/ \E k \in 1..4 : TwinLights[k]
      THEN /\ Twin.status_alert[1] = << "text", "ALERTA: " >>
           /\ Len(Twin.status_alert) > 1
           /\ Twin.alert_color = "red"
      ELSE /\ Twin.status_alert = << << "text", "OPERANDO NORMALMENTE" >> >>
           /\ Twin.alert_color = "green"

\* DTCs and no light: an alert.
C14_Witness ==
  /\ Built
  /\ Len(Twin.diagnostic_trouble_codes) > 0
  /\ \A k \in 1..4 : ~TwinLights[k]
  /\ Twin.alert_color = "red"

\* The tokens of a message that are one of `wanted`, in message order.
Only(message, wanted) == SelectSeq(message, LAMBDA tok : tok \in wanted)

\* The SPN and FMI of each DTC of the twin, in list order, as a message
\* shows them.
DtcPairs ==
  [ k \in 1..(2 * Len(Twin.diagnostic_trouble_codes)) |->
      LET code == Twin.diagnostic_trouble_codes[(k + 1) \div 2]
          key == IF k % 2 = 1 THEN "spnId" ELSE "fmiId"
      IN  IF key \in DOMAIN code THEN << "val", code[key] >> ELSE << "N/A" >> ]

LightTexts ==
  << << "text", "Advertencia (Warning)" >>, << "text", "Emisiones (Emissions)" >>,
     << "text", "Protección (Protect)" >>, << "text", "Detener (Stop)" >> >>

\* The first place of a token in a message, 0 when it is not there.
Place(message, tok) ==
  IF \E k \in 1..Len(message) : message[k] = tok
    THEN CHOOSE k \in 1..Len(message) :
           message[k] = tok /\ \A j \in 1..(k - 1) : message[j] # tok
    ELSE 0

\* C15: the message of a twin with DTCs shows the SPN and FMI of every DTC
\* once, in list order, in a DTC clause that comes before the light clause;
\* the light clause is there when a light is on and names the lights that are
\* on, in the order warning, emissions, protect, stop.
C15_AlertMessage ==
  (Built /\ Len(Twin.diagnostic_trouble_codes) > 0) =>
    LET msg == Twin.status_alert
        values == SelectSeq(msg, LAMBDA tok : tok[1] \in {"val", "N/A"})
        on == SelectSeq(<< 1, 2, 3, 4 >>, LAMBDA k : TwinLights[k])
        dtc_at == Place(msg, << "text", "Fallas de motor (DTCs: " >>)
        light_at == Place(msg, << "text", "Luz de Check Engine ON (" >>)
    IN  /\ values = DtcPairs
        /\ dtc_at = 2
        /\ Only(msg, Range(LightTexts)) = [ k \in 1..Len(on) |-> LightTexts[on[k]] ]
        /\ (Len(on) > 0) <=> (light_at > 0)
        /\ light_at > 0 =>
             /\ \A k \in 1..Len(msg) : msg[k][1] \in {"val", "N/A"} => k < light_at
             /\ \A k \in 1..Len(msg) : msg[k] \in Range(LightTexts) => k > light_at

\* Two DTCs, one of them without an SPN, and two lights on.
C15_Witness ==
  /\ Built
  /\ Len(Twin.diagnostic_trouble_codes) = 2
  /\ \E k \in 1..2 : "spnId" \notin DOMAIN Twin.diagnostic_trouble_codes[k]
  /\ TwinLights = << FALSE, TRUE, FALSE, TRUE >>
  /\ Len(Twin.status_alert) > 10

\* C18: a maintenance record whose j1939 field is null or missing gives a
\* twin with the four lights off, no DTC, 'OPERANDO NORMALMENTE' and green.
C18_NullJ1939 ==
  ( /\ Built
    /\ 1 \in DOMAIN maintenance
    /\ "j1939" \in DOMAIN maintenance[1] => maintenance[1]["j1939"] = << "null" >> ) =>
    /\ TwinLights = << FALSE, FALSE, FALSE, FALSE >>
    /\ Twin.diagnostic_trouble_codes = << >>
    /\ Twin.status_alert = << << "text", "OPERANDO NORMALMENTE" >> >>
    /\ Twin.alert_color = "green"

\* A record with a null j1939 block, built into a twin.
C18_Witness ==
  /\ Built
  /\ 1 \in DOMAIN maintenance
  /\ "j1939" \in DOMAIN maintenance[1]
  /\ maintenance[1]["j1939"] = Null
  /\ Twin.alert_color = "green"

\* The stat fields and the position the fetch has for the vehicle.
StatsData == IF 1 \in DOMAIN stats THEN stats[1] ELSE EmptyMap
LocationData ==
  IF 1 \in DOMAIN locations /\ locations[1][1] = "obj"
    THEN locations[1][2] ELSE EmptyMap

\* A JSON integer or decimal, or a boolean, which Python counts as 1 or 0.
IsNumber(v) == v[1] \in {"num", "dec", "bool"}

Distance(a, b) == IF a < b THEN b - a ELSE a - b

\* shown is the fraction source / den rounded to two decimals: a whole
\* number of hundredths, no further than half a hundredth from it.
RoundedFrom(shown, source, den) ==
  /\ shown[1] \in {"x100", "num", "dec", "bool"}
  /\ LET xn == IF shown[1] = "x100" THEN shown[2] ELSE Numerator(shown)
         xd == IF shown[1] = "x100" THEN 100 ELSE Denominator(shown)
         d == Denominator(source) * den
     IN  /\ (100 * xn) % xd = 0
         /\ 2 * Distance(100 * Numerator(source), ((100 * xn) \div xd) * d) <= d

\* The field of the twin is the source field over den rounded to two
\* decimals when the source is a number, and 'N/A' when it is anything else
\* or missing.
Normalized(field, data, key, den) ==
  IF key \in DOMAIN data /\ IsNumber(data[key])
    THEN RoundedFrom(Twin[field], data[key], den)
    ELSE Twin[field] = << "N/A" >>

C17_RoundedPassThrough ==
  Built =>
    /\ Normalized("engine_oil_pressure_kpa", StatsData, "engineOilPressureKPa", 1)
    /\ Normalized("engine_rpm", StatsData, "engineRpm", 1)
    /\ Normalized("speed_mph", LocationData, "speed", 1)

\* The items of a location answer that have both fields.
WholeItems(q) ==
  SelectSeq(LocationAnswer(q),
            LAMBDA item : {"id", "location"} \subseteq DOMAIN item)

\* C19: a location answer with an item that lacks 'location' or 'id' does
\* not end the run: the run completes with a twin for every roster vehicle,
\* the whole items of every answered chunk are in the location map, and the
\* twin of a vehicle with no entry there has no position.
C19_MalformedNotFatal ==
  LET l == RequestsTo("locations")
  IN  (pc = "idle" /\ Len(l) > 0) =>
        /\ outcome = "completed"
        /\ DOMAIN all_gemelos_digitales = RosterIds
        /\ \A k \in 1..Len(l) :
             l[k].ok =>
               \A j \in 1..Len(WholeItems(l[k])) :
                 WholeItems(l[k])[j]["id"][2] \in DOMAIN locations
        /\ \A vid \in RosterIds \ DOMAIN locations :
             all_gemelos_digitales[vid].latitude = << "N/A" >>

\* C20: after a completed run the twin mapping has one twin per vehicle of
\* the roster of that run, each the record built in that run from its roster
\* item and its fetch results; a vehicle of the mapping it replaced that is
\* not in this roster has no entry.
C20_WholesaleReplacement ==
  outcome = "completed" =>
    /\ DOMAIN all_gemelos_digitales
         = { vehicle_details_list[k]["id"][2] : k \in 1..Len(vehicle_details_list) }
    /\ \A k \in 1..Len(vehicle_details_list) :
         all_gemelos_digitales[vehicle_details_list[k]["id"][2]]
           = process_vehicle_data(vehicle_details_list[k], locations, stats,
                                  maintenance, now)
    /\ \A vid \in DOMAIN previous_gemelos :
         (\A k \in 1..Len(vehicle_details_list) :
            vehicle_details_list[k]["id"][2] # vid)
           => vid \notin DOMAIN all_gemelos_digitales

\* A run whose roster lost a vehicle and whose twins were all built later
\* than the ones they replaced.
C20_Witness ==
  /\ outcome = "completed"
  /\ \E vid \in DOMAIN previous_gemelos : vid \notin DOMAIN all_gemelos_digitales
  /\ \E vid \in DOMAIN previous_gemelos :
       /\ vid \in DOMAIN all_gemelos_digitales
       /\ previous_gemelos[vid].last_data_sync
            < all_gemelos_digitales[vid].last_data_sync

\* The IDs of the roster result of this run, in the order of the result.
RosterIdList ==
  [ k \in 1..Len(vehicle_details_list) |-> vehicle_details_list[k]["id"][2] ]

\* The script is still at the roster fetch of this run (line 560).
AtRoster == pc \in {"roster_call", "roster_loop", "roster_check"}

\* C21: in every run no location, stat or maintenance request is issued
\* before the roster fetch of that run has returned, and the ID list the three
\* dynamic fetchers work on is the list of the IDs of that roster result, same
\* IDs in the same order: the location and stat requests carry slices of it
\* and the maintenance working set is drawn from it.
C21_RosterBeforeDynamic ==
  /\ AtRoster => \A i \in 1..Len(reqs) : reqs[i].ep = "vehicles"
  /\ \A i, j \in 1..Len(reqs) :
       (i < j /\ reqs[j].ep = "vehicles") => reqs[i].ep = "vehicles"
  /\ ~AtRoster => vehicle_ids = RosterIdList
  /\ \A k \in 1..Len(RequestsTo("locations")) :
       RequestsTo("locations")[k].ids =
         Slice(RosterIdList, (k - 1) * batch_size, batch_size)
  /\ \A k \in 1..Len(RequestsTo("stats")) :
       \E c \in 0..(Len(RosterIdList) \div batch_size) :
         RequestsTo("stats")[k].ids = Slice(RosterIdList, c * batch_size, batch_size)
  /\ pc = "maint_loop" =>
       target_id_set \cup DOMAIN maintenance_map = Range(RosterIdList)

\* A run that fetched a roster of several vehicles and then all three kinds
\* of dynamic data.
C21_Witness ==
  /\ outcome = "completed"
  /\ Len(RequestsTo("vehicles")) > 1
  /\ Len(vehicle_ids) > 1
  /\ vehicle_ids[1] # vehicle_ids[2]
  /\ RequestsTo("locations") # << >>
  /\ RequestsTo("maintenance") # << >>
  /\ RequestsTo("stats") # << >>

\* What a fetcher computes from its own requests and their answers alone,
\* given the ID list and the server: the requests of the log are replayed
\* one by one, the failed ones giving nothing.
RECURSIVE ReplayLocations(_)
ReplayLocations(rs) ==
  IF rs = << >> THEN EmptyMap
  ELSE LET r == rs[Len(rs)]
           before == ReplayLocations(SubSeq(rs, 1, Len(rs) - 1))
       IN  IF r.ok
             THEN MergeLocations(before, Get(LocationsResponse(srv, r.ids), "data", << >>))
             ELSE before

MaintenancePageOf(after) ==
  LET response_data == MaintenanceResponse(srv, after)
      first == Get(response_data, "vehicleMaintenance", << >>)
  IN  IF Len(first) = 0 THEN Get(response_data, "vehicles", << >>) ELSE first

RECURSIVE ReplayMaintenance(_)
ReplayMaintenance(rs) ==
  IF rs = << >> THEN [ map |-> EmptyMap, targets |-> Range(vehicle_ids) ]
  ELSE LET r == rs[Len(rs)]
           before == ReplayMaintenance(SubSeq(rs, 1, Len(rs) - 1))
       IN  IF r.ok THEN FilterPage(before.map, before.targets, MaintenancePageOf(r.after))
           ELSE [ map |-> EmptyMap, targets |-> before.targets ]

RECURSIVE ReplayStats(_)
ReplayStats(rs) ==
  IF rs = << >> THEN [ vid \in Range(vehicle_ids) |-> EmptyMap ]
  ELSE LET r == rs[Len(rs)]
           before == ReplayStats(SubSeq(rs, 1, Len(rs) - 1))
       IN  IF r.ok
             THEN MergeStats(before, Get(StatsResponse(srv, r.ids, r.types), "data", << >>),
                             r.types)
             ELSE before

\* The (ID offset, type batch) of the stat request that follows the requests rs.
RECURSIVE ReplayStatsPosition(_)
ReplayStatsPosition(rs) ==
  IF rs = << >> THEN << 0, 1 >>
  ELSE LET before == ReplayStatsPosition(SubSeq(rs, 1, Len(rs) - 1))
       IN  StatsNext(before[1], before[2], rs[Len(rs)].ok)

\* Each fetcher's requests follow from the ID list and its own earlier answers.
OwnRequests ==
  /\ \A k \in 1..Len(RequestsTo("locations")) :
       RequestsTo("locations")[k].ids = Slice(vehicle_ids, (k - 1) * batch_size, batch_size)
  /\ \A k \in 1..Len(RequestsTo("maintenance")) :
       RequestsTo("maintenance")[k].after =
         IF k = 1 THEN None
         ELSE Get(Get(MaintenanceResponse(srv, RequestsTo("maintenance")[k - 1].after),
                      "pagination", EmptyMap), "endCursor", None)
  /\ \A k \in 1..Len(RequestsTo("stats")) :
       LET at == ReplayStatsPosition(SubSeq(RequestsTo("stats"), 1, k - 1))
       IN  /\ RequestsTo("stats")[k].ids = Slice(vehicle_ids, at[1], batch_size)
           /\ RequestsTo("stats")[k].types = stat_type_batches[at[2]]

FirstPosition(vid) ==
  CHOOSE p \in 1..Len(srv.mlist) :
    srv.mlist[p] = vid /\ \A q \in 1..(p - 1) : srv.mlist[q] # vid

\* The maintenance map m holds, for each of its IDs, the first item the
\* server lists for that ID.
FirstOccurrences(m) ==
  \A vid \in DOMAIN m :
    /\ \E p \in 1..Len(srv.mlist) : srv.mlist[p] = vid
    /\ m[vid] = MaintenanceItem(vid, FirstPosition(vid))

\* C23: throughout get_all_vehicle_maintenance_data the working set and the
\* key set of the result map are disjoint and their union is the original
\* target ID set; the result holds only target IDs, and for a vehicle listed
\* several times, on one page or on several, the first item is the one kept.
C23_WorkingSetPartition ==
  /\ pc = "maint_loop" =>
       /\ target_id_set \cap DOMAIN maintenance_map = {}
       /\ target_id_set \cup DOMAIN maintenance_map = Range(vehicle_ids)
       /\ FirstOccurrences(maintenance_map)
  /\ (pc \in {"stats_loop", "build"} \/ outcome = "completed") =>
       /\ DOMAIN maintenance \subseteq Range(vehicle_ids)
       /\ FirstOccurrences(maintenance)

\* The fetch has read both pages of a list that names vehicle 1 three times
\* and has returned an item for it.
C23_Witness ==
  /\ pc = "stats_loop"
  /\ srv = RepeatingServer
  /\ Len(RequestsTo("maintenance")) = 2
  /\ Cardinality({ p \in 1..Len(srv.mlist) : srv.mlist[p] = 1 }) = 3
  /\ 1 \in DOMAIN maintenance
  /\ SmallFleet + 2 \notin DOMAIN maintenance

\* The run has issued a request that failed.
SomeFailed(ep) == \E k \in 1..Len(reqs) : reqs[k].ep = ep /\ ~reqs[k].ok

\* C24: a degraded result is memoized like a complete one.  Whatever the
\* roster fetch returns, after failed pages too, is stored at its return; a
\* later roster call less than 3600 s after that takes the stored list and
\* issues no request, and an empty list halts that run again.  Whatever the
\* combined fetch returns, after failed requests too, is stored at its
\* return and a call with the same IDs less than 55 s later takes it and
\* issues no request.
C24_DegradedResultsReused ==
  [][ /\ (pc = "roster_loop" /\ pc' = "roster_check") =>
           /\ NoArgs \in DOMAIN roster_cache'
           /\ roster_cache'[NoArgs] =
                [ value |-> vehicle_details_list', stored |-> now' ]
      /\ (/\ pc = "roster_call"
          /\ NoArgs \in DOMAIN roster_cache
          /\ now < roster_cache[NoArgs].stored + ROSTER_TTL) =>
           /\ pc' = "roster_check"
           /\ vehicle_details_list' = roster_cache[NoArgs].value
           /\ reqs' = reqs
      /\ (pc = "roster_check" /\ vehicle_details_list = << >>) =>
           (pc' = "idle" /\ outcome' = "halted" /\ reqs' = reqs)
      /\ (pc = "stats_loop" /\ pc' = "build") =>
           /\ vehicle_ids \in DOMAIN dynamic_cache'
           /\ dynamic_cache'[vehicle_ids] =
                [ value |-> << locations', stats', maintenance' >>, stored |-> now' ]
      /\ (/\ pc = "dyn_call"
          /\ vehicle_ids \in DOMAIN dynamic_cache
          /\ now < dynamic_cache[vehicle_ids].stored + DYNAMIC_TTL) =>
           /\ pc' = "build"
           /\ << locations', stats', maintenance' >> = dynamic_cache[vehicle_ids].value
           /\ reqs' = reqs
    ]_vars

\* A rerun that halted without a single request: the empty list that the
\* failed first page of the run before left in the cache was taken again,
\* although the server has vehicles.
C24_Witness ==
  /\ cycles = 2
  /\ trigger = "rerun"
  /\ outcome = "halted"
  /\ reqs = << >>
  /\ srv.fleet > 0
  /\ NoArgs \in DOMAIN roster_cache
  /\ roster_cache[NoArgs].value = << >>
  /\ now < roster_cache[NoArgs].stored + ROSTER_TTL

Ceil(a, b) == (a + b - 1) \div b

\* The last request of the run to endpoint ep.
LastTo(ep) == RequestsTo(ep)[Len(RequestsTo(ep))]

\* The cursor that came with the answer to roster request r, to maintenance
\* request r.
RosterCursorAfter(r) ==
  Get(Get(RosterResponse(srv, r.after), "pagination", EmptyMap), "endCursor", None)
MaintenanceCursorAfter(r) ==
  Get(Get(MaintenanceResponse(srv, r.after), "pagination", EmptyMap),
      "endCursor", None)

\* The roster fetch, the maintenance fetch of this run has returned.
RosterReturned == pc \notin {"roster_call", "roster_loop"}
MaintenanceReturned == pc \in {"stats_loop", "build"} \/ outcome = "completed"

\* The location fetch returns after one request per chunk of 100 IDs, and
\* the stat fetch never issues more than one request per ID chunk and batch
\* of 4 types.
RequestCounts ==
  LET n == Len(vehicle_ids)
      t == Len(all_desired_stat_types)
  IN  /\ pc = "loc_loop" => Len(RequestsTo("locations")) < Ceil(n, batch_size)
      /\ (pc = "maint_loop" \/ MaintenanceReturned) =>
           Len(RequestsTo("locations")) = Ceil(n, batch_size)
      /\ Len(RequestsTo("stats")) <= Ceil(n, batch_size) * Ceil(t, stat_type_batch)
      /\ (pc = "build" \/ outcome = "completed") => RequestsTo("stats") # << >>

\* A paginated loop goes on exactly while every page so far was answered
\* with a cursor (and, for maintenance, IDs are still wanted).
LoopsEndWhenToldTo ==
  /\ pc = "roster_loop" =>
       \A k \in 1..Len(RequestsTo("vehicles")) :
         /\ RequestsTo("vehicles")[k].ok
         /\ RosterCursorAfter(RequestsTo("vehicles")[k]) # None
  /\ RosterReturned =>
       \/ ~LastTo("vehicles").ok
       \/ RosterCursorAfter(LastTo("vehicles")) = None
  /\ pc = "maint_loop" =>
       /\ target_id_set # {} \/ RequestsTo("maintenance") = << >>
       /\ \A k \in 1..Len(RequestsTo("maintenance")) :
            /\ RequestsTo("maintenance")[k].ok
            /\ MaintenanceCursorAfter(RequestsTo("maintenance")[k]) # None
  /\ MaintenanceReturned =>
       \/ ~LastTo("maintenance").ok
       \/ MaintenanceCursorAfter(LastTo("maintenance")) = None
       \/ ReplayMaintenance(RequestsTo("maintenance")).targets = {}

\* Against the endless server a paginated loop is left by a failed request
\* only: however many pages have been read, it is still asking.
EndlessLoops ==
  srv.endless =>
    /\ ~SomeFailed("vehicles") => ~RosterReturned
    /\ ~SomeFailed("maintenance") => ~MaintenanceReturned

\* C25: every fetcher terminates.  The location fetch returns after exactly
\* ceil(n/100) requests and the stat fetch after at most
\* ceil(n/100)*ceil(t/4); the roster and maintenance loops end with a page
\* without cursor, with a failed request or (maintenance) with an empty
\* working set, so a run against a server whose lists end goes through to
\* its end; nothing else ends them, and against a server that gives a cursor
\* with every page and never names a wanted vehicle they go on as long as
\* no request fails.
C25_FetchersTerminate ==
  /\ [](RequestCounts /\ LoopsEndWhenToldTo /\ EndlessLoops)
  /\ (~srv.endless) ~> (pc = "idle")
  /\ (srv.endless /\ SomeFailed("maintenance")) ~> (pc = "idle")

\* Against the endless server both paginated loops have been followed for
\* as many pages as the model goes: the roster loop was left by a failed
\* request, the maintenance loop is still asking.
C25_Witness ==
  /\ srv.endless
  /\ Len(RequestsTo("vehicles")) = MaxPages
  /\ pc = "maint_loop"
  /\ Len(RequestsTo("maintenance")) = MaxPages
  /\ ~SomeFailed("maintenance")
  /\ target_id_set # {}

====
